---- MODULE Spec2Model ----
(***************************************************************************)
(* Model of frontend/src/login.ts: the login dialog (login, loginDialog,   *)
(* go, useAuthorized), logout, the log viewer's windowed loader (LogFile)  *)
(* and the records of its lines (parseLogLine, enhanceLogLine).            *)
(*                                                                         *)
(* JavaScript runs callbacks to completion, so one action is one callback: *)
(* the synchronous part of a call, a promise reaction, an effect.  The     *)
(* continuation of an `await` is a reaction of its own: it runs in a later *)
(* microtask than the reaction that settled the awaited promise.           *)
(***************************************************************************)
EXTENDS Integers, Sequences, FiniteSets, TLC

\* ---------------------------------------------------------------- bounds
MaxCalls == 3       \* loginDialog calls in one run
MaxAttempts == 2    \* authentication sequences started in one run
MaxFile == 5        \* bytes in the log file
MaxEvents == 1      \* events the get_log stream delivers in one run
MaxLogouts == 2     \* calls of logout in one run
MAX == 4            \* the tail cap of LogFile, 2**20 in the source, scaled to the files modelled

\* ------------------------------------------------------------- constants
HTTP_UNAUTHORIZED == 401
HTTP_CONFLICT == 409

\* -------------------------------------------------------------- helpers
RECURSIVE TrimStart(_)
TrimStart(s) ==
    IF s # <<>> /\ Head(s) = " " THEN TrimStart(Tail(s)) ELSE s

RECURSIVE TrimEnd(_)
TrimEnd(s) ==
    IF s # <<>> /\ s[Len(s)] = " " THEN TrimEnd(SubSeq(s, 1, Len(s) - 1)) ELSE s

\* String.prototype.trim, as used on the username field
Trim(s) == TrimEnd(TrimStart(s))

\* values the two input fields are given (sequences of characters)
FieldValues == { <<>>, <<" ">>, <<"a">>, <<" ", "a">> }
FilledFields == { <<"a">> }

\* errors srpClientSequence rejects with; code 0 stands for no code
ErrMessages == { "trust", "Failed to fetch" }
ErrCodes == { 0, HTTP_UNAUTHORIZED, HTTP_CONFLICT, 500 }
Errors == [message : ErrMessages, code : ErrCodes]
NoErr == [message |-> "", code |-> 0]
NoMsg == [key |-> "", def |-> ""]

\* a call of t(key, default): the key looked up and the text it falls back to
T(key, def) == [key |-> key, def |-> def]

VARIABLES
    loginRequired,     \* state.loginRequired
    closeLoginDialog,  \* the module's close handle: 0 (undefined) or the id of the dialog it closes
    lastPromise,       \* index in promises of the promise held by lastPromise, 0 before any call
    dialogs,           \* the dialogs newDialog created: open, the value onClose was called with, going
    promises,          \* one per loginDialog call: the dialog whose onClose resolves it (0: none)
    attempts,          \* the runs of go() that passed its guard, each with its position
    working,           \* number of working() spinners shown
    refreshes,         \* calls of sessionRefresher
    reloads,           \* calls of reloadList
    effectDep,         \* loginRequired as of the last run of useAuthorized's effect ("unmounted" before)
    lastGo             \* the last call of go(): its dialog, field values and whether it called login

loginVars == << loginRequired, closeLoginDialog, lastPromise, dialogs, promises,
                attempts, working, refreshes, reloads, effectDep, lastGo >>

VARIABLES
    file,              \* the log file on the server, a sequence of characters
    totalSize,         \* LogFile state; NaN before the first response
    limited,           \* LogFile state
    skipped,           \* LogFile state
    list,              \* the list of useApiList, which onResponse appends to
    pause,             \* usePauseButton
    connecting,        \* useApiList: the get_log stream is not connected yet
    streamed,          \* events received from the get_log stream
    apiParams,         \* the range useApi last requested get_log_file with
    req,               \* the get_log_file request in flight, with the state its onResponse closed over
    issued,            \* the ranges requested so far, in order
    responses,         \* the responses handled so far: range kind, bytes received, size, outcome
    toasts,            \* calls of toast
    showCountry,       \* LogFile state
    showAgent          \* LogFile state

showVars == << showCountry, showAgent >>

logVars == << file, totalSize, limited, skipped, list, pause, connecting, streamed,
              apiParams, req, issued, responses, toasts, showVars >>

VARIABLES
    username,          \* state.username, empty when nobody is logged in
    logouts            \* the calls of logout(): position, the code apiCall rejected with

sessionVars == << username, logouts >>

VARIABLES
    rec                \* one line given to parseLogLine, and the record made of it

recVars == << rec >>

vars == << loginVars, sessionVars, logVars, recVars >>

\* ---------------------------------------------------------------- login
\* the message login() throws for a rejected authentication sequence
LoginErrorMessage_TrustLast(err) ==
    IF err.code = HTTP_UNAUTHORIZED THEN T("login_bad_credentials", "Invalid credentials")
    ELSE IF err.code = HTTP_CONFLICT THEN T("login_bad_cookies", "Cookies not working - login failed")
    ELSE IF err.message = "trust" THEN T("login_untrusted", "Login aborted: server identity cannot be trusted")
    ELSE T(err.message, err.message)

LoginErrorMessage(err) ==
    IF err.message = "trust" THEN T("login_untrusted", "Login aborted: server identity cannot be trusted")
    ELSE IF err.code = HTTP_UNAUTHORIZED THEN T("login_bad_credentials", "Invalid credentials")
    ELSE IF err.code = HTTP_CONFLICT THEN T("login_bad_cookies", "Cookies not working - login failed")
    ELSE T(err.message, err.message)

\* a reaction is queued: go() resumes after `await login(...)` before any
\* user or network event is handled
MicrotaskPending == \E i \in 1..Len(attempts) : attempts[i].pc = "resolved"

OpenDialogs == { d \in 1..Len(dialogs) : dialogs[d].open }

\* the value a promise returned by loginDialog has settled with, "pending" if none
PromiseValue(p) ==
    IF promises[p].dlg = 0 THEN "pending" ELSE dialogs[promises[p].dlg].result

\* close(v) of dialog d, as returned by newDialog: closes the dialog if it is
\* open and runs its onClose(v); nothing on a dialog already closed
CloseEffect(d, v) ==
    IF dialogs[d].open
    THEN /\ dialogs' = [dialogs EXCEPT ![d].open = FALSE, ![d].result = v]
         /\ closeLoginDialog' = 0
    ELSE UNCHANGED << dialogs, closeLoginDialog >>

\* the guard of loginDialog's executor
AlreadyOpen_Never == FALSE

AlreadyOpen == closeLoginDialog # 0

\* loginDialog(closable): the promise executor, run synchronously
LoginDialogEffect(closable) ==
    /\ lastPromise' = Len(promises) + 1
    /\ IF AlreadyOpen
       THEN /\ promises' = Append(promises, [dlg |-> 0, during |-> closeLoginDialog])
            /\ UNCHANGED << dialogs, closeLoginDialog >>
       ELSE /\ dialogs' = Append(dialogs, [open |-> TRUE, result |-> "pending", going |-> FALSE])
            /\ closeLoginDialog' = Len(dialogs) + 1
            /\ promises' = Append(promises, [dlg |-> Len(dialogs) + 1, during |-> 0])

LoginInit ==
    /\ loginRequired = FALSE
    /\ closeLoginDialog = 0
    /\ lastPromise = 0
    /\ dialogs = <<>>
    /\ promises = <<>>
    /\ attempts = <<>>
    /\ working = 0
    /\ refreshes = 1
    /\ reloads = 0
    /\ effectDep = "unmounted"
    /\ lastGo = [dlg |-> 0, usr |-> <<>>, pwd |-> <<>>, started |-> FALSE]

\* a caller other than useAuthorized calls loginDialog
LoginDialog(closable) ==
    /\ ~MicrotaskPending
    /\ Len(promises) < MaxCalls
    /\ LoginDialogEffect(closable)
    /\ UNCHANGED << loginRequired, attempts, working, refreshes, reloads, effectDep, lastGo >>
    /\ UNCHANGED << sessionVars, logVars, recVars >>

\* Escape typed in a field of dialog d
KeyEscape(d) ==
    /\ ~MicrotaskPending
    /\ d \in OpenDialogs
    /\ CloseEffect(d, "null")
    /\ UNCHANGED << loginRequired, lastPromise, promises, attempts, working, refreshes,
                    reloads, effectDep, lastGo >>
    /\ UNCHANGED << sessionVars, logVars, recVars >>

\* the guard of go(): usr is trimmed, pwd is not
GoGuard_NoUsr(d, usr, pwd) == ~dialogs[d].going /\ pwd # <<>>

GoGuard_NoGoing(d, usr, pwd) == usr # <<>> /\ pwd # <<>>

GoGuard(d, usr, pwd) == ~dialogs[d].going /\ usr # <<>> /\ pwd # <<>>

\* go(): the form of dialog d is submitted, or Enter is typed in a field,
\* with the fields holding u and p; up to the call of login()
Go(d, u, p) ==
    /\ ~MicrotaskPending
    /\ d \in OpenDialogs
    /\ LET usr == Trim(u)
           pwd == p
           started == GoGuard(d, usr, pwd)
       IN
       /\ started => Len(attempts) < MaxAttempts
       /\ lastGo' = [dlg |-> d, usr |-> u, pwd |-> p, started |-> started]
       /\ IF started
          THEN /\ dialogs' = [dialogs EXCEPT ![d].going = TRUE]
               /\ attempts' = Append(attempts, [dlg |-> d, usr |-> usr, pwd |-> pwd, pc |-> "auth",
                                                redirect |-> FALSE, err |-> NoErr, msg |-> NoMsg,
                                                trace |-> <<>>])
               /\ working' = working + 1
          ELSE UNCHANGED << dialogs, attempts, working >>
    /\ UNCHANGED << loginRequired, closeLoginDialog, lastPromise, promises, refreshes,
                    reloads, effectDep >>
    /\ UNCHANGED << sessionVars, logVars, recVars >>

\* srpClientSequence fulfils: login()'s first reaction
LoginSuccess(i, redirect) ==
    /\ ~MicrotaskPending
    /\ i \in 1..Len(attempts)
    /\ attempts[i].pc = "auth"
    /\ working' = working - 1
    /\ refreshes' = refreshes + 1
    /\ loginRequired' = FALSE
    /\ reloads' = reloads + 1
    /\ attempts' = [attempts EXCEPT ![i].pc = "resolved", ![i].redirect = redirect,
                                    ![i].trace = << "sessionRefresher", "loginRequired", "reloadList" >>]
    /\ username' = attempts[i].usr
    /\ UNCHANGED << closeLoginDialog, lastPromise, dialogs, promises, effectDep, lastGo >>
    /\ UNCHANGED << logouts, logVars, recVars >>

\* go() resumes after a fulfilled login(): close(true), the redirect, finally
GoResume(i) ==
    /\ i \in 1..Len(attempts)
    /\ attempts[i].pc = "resolved"
    /\ LET d == attempts[i].dlg IN
       /\ IF dialogs[d].open
          THEN /\ dialogs' = [dialogs EXCEPT ![d].open = FALSE, ![d].result = "true",
                                             ![d].going = FALSE]
               /\ closeLoginDialog' = 0
          ELSE /\ dialogs' = [dialogs EXCEPT ![d].going = FALSE]
               /\ UNCHANGED closeLoginDialog
       /\ attempts' = [attempts EXCEPT ![i].pc = "done",
                          ![i].trace = attempts[i].trace \o << "close" >>
                              \o (IF attempts[i].redirect THEN << "navigate" >> ELSE <<>>)]
    /\ UNCHANGED << loginRequired, lastPromise, promises, working, refreshes, reloads,
                    effectDep, lastGo >>
    /\ UNCHANGED << sessionVars, logVars, recVars >>

\* srpClientSequence rejects with err: login() throws the mapped message and
\* go() catches it and shows the alert
LoginFailure(i, err) ==
    /\ ~MicrotaskPending
    /\ i \in 1..Len(attempts)
    /\ attempts[i].pc = "auth"
    /\ working' = working - 1
    /\ attempts' = [attempts EXCEPT ![i].pc = "alert", ![i].err = err,
                                    ![i].msg = LoginErrorMessage(err)]
    /\ UNCHANGED << loginRequired, closeLoginDialog, lastPromise, dialogs, promises,
                    refreshes, reloads, effectDep, lastGo >>
    /\ UNCHANGED << sessionVars, logVars, recVars >>

\* what go()'s finally block leaves in `going`
GoFinally_Skipped(g) == g

GoFinally(g) == FALSE

\* the alert is dismissed: go() refocuses the username and runs its finally
AlertDismiss(i) ==
    /\ ~MicrotaskPending
    /\ i \in 1..Len(attempts)
    /\ attempts[i].pc = "alert"
    /\ attempts' = [attempts EXCEPT ![i].pc = "done", ![i].err = NoErr, ![i].msg = NoMsg]
    /\ dialogs' = [dialogs EXCEPT ![attempts[i].dlg].going = GoFinally(@)]
    /\ UNCHANGED << loginRequired, closeLoginDialog, lastPromise, promises, working,
                    refreshes, reloads, effectDep, lastGo >>
    /\ UNCHANGED << sessionVars, logVars, recVars >>

\* useAuthorized renders with location.hash = '#LOGIN'
HashLogin ==
    /\ ~MicrotaskPending
    /\ ~loginRequired
    /\ loginRequired' = TRUE
    /\ UNCHANGED << closeLoginDialog, lastPromise, dialogs, promises, attempts, working,
                    refreshes, reloads, effectDep, lastGo >>
    /\ UNCHANGED << sessionVars, logVars, recVars >>

\* useAuthorized's effect: on mount and after each change of loginRequired
AuthorizedEffect ==
    /\ effectDep # (IF loginRequired THEN "true" ELSE "false")
    /\ loginRequired /\ closeLoginDialog = 0 => Len(promises) < MaxCalls
    /\ effectDep' = (IF loginRequired THEN "true" ELSE "false")
    /\ IF ~loginRequired
       THEN /\ IF closeLoginDialog # 0
               THEN CloseEffect(closeLoginDialog, "undefined")
               ELSE UNCHANGED << dialogs, closeLoginDialog >>
            /\ UNCHANGED << lastPromise, promises >>
       ELSE IF closeLoginDialog = 0
            THEN LoginDialogEffect(FALSE)
            ELSE UNCHANGED << dialogs, closeLoginDialog, lastPromise, promises >>
    /\ UNCHANGED << loginRequired, attempts, working, refreshes, reloads, lastGo >>
    /\ UNCHANGED << sessionVars, logVars, recVars >>

\* logout(): apiCall('logout') is made
Logout ==
    /\ ~MicrotaskPending
    /\ Len(logouts) < MaxLogouts
    /\ logouts' = Append(logouts, [pc |-> "call", code |-> 0, user |-> username])
    /\ UNCHANGED << username, loginVars, logVars, recVars >>

\* apiCall('logout') fulfils: the catch handler is not run
LogoutFulfilled(i) ==
    /\ ~MicrotaskPending
    /\ i \in 1..Len(logouts)
    /\ logouts[i].pc = "call"
    /\ logouts' = [logouts EXCEPT ![i].pc = "fulfilled", ![i].user = username]
    /\ UNCHANGED << username, loginVars, logVars, recVars >>

\* the test of logout's catch handler: the error is the one expected
LogoutExpected_Any(code) == TRUE

LogoutExpected(code) == code = HTTP_UNAUTHORIZED

\* apiCall('logout') rejects with an error of the given code: the catch handler
LogoutRejected(i, code) ==
    /\ ~MicrotaskPending
    /\ i \in 1..Len(logouts)
    /\ logouts[i].pc = "call"
    /\ IF LogoutExpected(code)
       THEN /\ username' = <<>>
            /\ reloads' = reloads + 1
            /\ logouts' = [logouts EXCEPT ![i].pc = "handled", ![i].code = code, ![i].user = username]
       ELSE /\ logouts' = [logouts EXCEPT ![i].pc = "rethrown", ![i].code = code, ![i].user = username]
            /\ UNCHANGED << username, reloads >>
    /\ UNCHANGED << loginRequired, closeLoginDialog, lastPromise, dialogs, promises, attempts,
                    working, refreshes, effectDep, lastGo >>
    /\ UNCHANGED << logVars, recVars >>

\* ------------------------------------------------------------ log viewer
NL == "\n"

\* the characters of the modelled files: a line of two or more of r, c and u
\* stands for a line the grammar of parseLogLine accepts; an empty line, a
\* line with an x and a single character, which is too short for the fields
\* of the grammar, stand for lines it rejects
Chars == { "r", "x", NL }

Files == UNION { [1..n -> Chars] : n \in 0..MaxFile }

\* files whose lines are accepted, some with a country or a user agent
FilesWithExtra == UNION { [1..n -> { "r", "c", "u", NL }] : n \in 0..MaxFile }

NaN == -1

Undefined == [id |-> -1, text |-> <<>>, src |-> "undefined"]

NoRange == [kind |-> "none", n |-> 0]

NoRequest == [kind |-> "none", n |-> 0, limited |-> FALSE, skipped |-> 0]

Min(a, b) == IF a < b THEN a ELSE b

\* String.prototype.split('\n')
RECURSIVE Split(_)
Split(s) ==
    IF \A k \in 1..Len(s) : s[k] # NL
    THEN << s >>
    ELSE LET k == CHOOSE k \in 1..Len(s) : s[k] = NL /\ \A j \in 1..(k - 1) : s[j] # NL
         IN  << SubSeq(s, 1, k - 1) >> \o Split(SubSeq(s, k + 1, Len(s)))

\* the regular expression of parseLogLine, on the modelled characters
Matches(line) == Len(line) >= 2 /\ \A k \in 1..Len(line) : line[k] \in { "r", "c", "u" }

\* values of JavaScript, told apart as JSON.parse and the tests of
\* enhanceLogLine tell them apart
JUndefined == [t |-> "undefined"]
JNull == [t |-> "null"]
JBool(b) == [t |-> "boolean", b |-> b]
JNum(n) == [t |-> "number", n |-> n]
JStr(text) == [t |-> "string", text |-> text]
JArr(items) == [t |-> "array", items |-> items]
JObj(o) == [t |-> "object", o |-> o]

\* the text of a string: the JSON text of a value, the empty text, or text
\* that is no JSON (abc, [object Object])
JsonOf(v) == [json |-> TRUE, empty |-> FALSE, val |-> v]
EmptyText == [json |-> FALSE, empty |-> TRUE, val |-> JUndefined]
OtherText == [json |-> FALSE, empty |-> FALSE, val |-> JUndefined]

\* the properties of extra that enhanceLogLine reads
Keys == { "country", "ua", "dl", "ul", "size", "u", "params" }
NoProps == [k \in Keys |-> JUndefined]

\* v?.[k]: a property of an object, undefined on every other value
Get(v, k) == IF v.t = "object" THEN v.o[k] ELSE JUndefined

\* the value as a condition
Truthy(v) ==
    CASE v.t \in { "undefined", "null" } -> FALSE
      [] v.t = "boolean" -> v.b
      [] v.t = "number" -> v.n # 0
      [] v.t = "string" -> ~v.text.empty
      [] OTHER -> TRUE

\* the text JSON.parse reads for its argument: a string's own, the numeral of
\* a number, true, false, null, the joined elements of an array (modelled
\* for arrays of at most one number or boolean), [object Object] or undefined
ToText(v) ==
    CASE v.t = "string" -> v.text
      [] v.t \in { "number", "boolean", "null" } -> JsonOf(v)
      [] v.t = "array" /\ v.items = <<>> -> EmptyText
      [] v.t = "array" /\ Len(v.items) = 1 /\ v.items[1].t \in { "number", "boolean" } -> JsonOf(v.items[1])
      [] OTHER -> OtherText

\* tryJson(s): JSON.parse(s), undefined when it throws
tryJson(s) == IF ToText(s).json THEN ToText(s).val ELSE JUndefined

\* tryJson(tryJson(extra)) || undefined
ParsedExtra(token) ==
    LET v == tryJson(tryJson(JStr(token)))
    IN  IF Truthy(v) THEN v ELSE JUndefined

API_URL == "/~/api/"

\* the groups of the regular expression for a line of the modelled files:
\* a line with a c carries a country in its trailing token, a line with a u
\* a user agent
Groups(line) ==
    LET has(ch) == \E k \in 1..Len(line) : line[k] = ch
        o == [NoProps EXCEPT !["country"] = IF has("c") THEN JStr(OtherText) ELSE JUndefined,
                             !["ua"] = IF has("u") THEN JStr(OtherText) ELSE JUndefined]
    IN  [line |-> line, method |-> "GET", uri |-> << "/f" >>, status |-> 200,
         extra |-> IF has("c") \/ has("u") THEN JsonOf(JStr(JsonOf(JObj(o)))) ELSE EmptyText]

\* parseLogLine after the match: the record made of the groups m
parseMatch(m, id) ==
    [id |-> id, text |-> m.line, src |-> "file", method |-> m.method, uri |-> m.uri,
     status |-> m.status, extra |-> ParsedExtra(m.extra), notes |-> JUndefined]

\* parseLogLine without "if (!m) return"
parseLogLine_NoCheck(line, id) == parseMatch(Groups(line), id)

parseLogLine(line, id) ==
    IF Matches(line) THEN parseMatch(Groups(line), id) ELSE Undefined

\* x.uri?.startsWith(API_URL + 'loginSrp'), the uri being a sequence of pieces
StartsWithLoginSrp(uri) == Len(uri) >= 2 /\ uri[1] = API_URL /\ uri[2] = "loginSrp"

\* a value of notes: the marker, the value shown with it, and the notes the
\* record had when they are kept
Note(marker, detail, rest) == [marker |-> marker, detail |-> detail, rest |-> rest]

\* the notes, with the test of the upload before the one of the download
Notes_UploadFirst(x) ==
    IF x.method = "PUT" \/ Truthy(Get(x.extra, "ul"))
    THEN Note("uploaded", Get(x.extra, "size"), JUndefined)
    ELSE IF Truthy(Get(x.extra, "dl")) THEN Note("fully downloaded", JUndefined, JUndefined)
    ELSE IF x.status = HTTP_UNAUTHORIZED /\ StartsWithLoginSrp(x.uri)
    THEN Note("login failed", Get(x.extra, "u"), JUndefined)
    ELSE Note("params", Get(x.extra, "params"), x.notes)

\* the conditional chain that enhanceLogLine assigns to x.notes
Notes(x) ==
    IF Truthy(Get(x.extra, "dl")) THEN Note("fully downloaded", JUndefined, JUndefined)
    ELSE IF x.method = "PUT" \/ Truthy(Get(x.extra, "ul"))
    THEN Note("uploaded", Get(x.extra, "size"), JUndefined)
    ELSE IF x.status = HTTP_UNAUTHORIZED /\ StartsWithLoginSrp(x.uri)
    THEN Note("login failed", Get(x.extra, "u"), JUndefined)
    ELSE Note("params", Get(x.extra, "params"), x.notes)

\* enhanceLogLine passes no value on, and returns the record with its notes
enhanceLogLine(x) == IF x = Undefined THEN Undefined ELSE [x EXCEPT !.notes = Notes(x)]

\* what enhanceLogLine leaves in showCountry (key country) and showAgent
\* (key ua), as setShow(!!extra?.[key])
EnhanceShow_Follow(show, x, key) == x # Undefined /\ Truthy(Get(x.extra, key))

EnhanceShow(show, x, key) ==
    IF x # Undefined /\ Truthy(Get(x.extra, key)) /\ ~show THEN TRUE ELSE show

\* the same after the records xs have been enhanced one by one
ShowAfter(show, xs, key) ==
    LET F[k \in 0..Len(xs)] == IF k = 0 THEN show ELSE EnhanceShow(F[k - 1], xs[k], key)
    IN  F[Len(xs)]

\* mapFilter(lines, (x, i) => enhanceLogLine(parseLogLine(x, i)), Boolean, invert):
\* with invert it reduces from the right, so the last line comes first
Treated(lines) ==
    LET F[k \in 0..Len(lines)] ==
            IF k = 0 THEN <<>>
            ELSE LET y == enhanceLogLine(parseLogLine(lines[k], k - 1))
                 IN  (IF y # Undefined THEN << y >> ELSE <<>>) \o F[k - 1]
    IN  F[Len(lines)]

\* the range parameter of useApi('get_log_file', ...)
RequestRange_NoSkippedTest(l, s) ==
    IF l THEN [kind |-> "tail", n |-> MAX] ELSE [kind |-> "prefix", n |-> s]

RequestRange(l, s) ==
    IF l \/ s = 0 THEN [kind |-> "tail", n |-> MAX] ELSE [kind |-> "prefix", n |-> s]

\* get_log_file: the bytes of the range, -n the last n and 0-n the bytes 0
\* to n inclusive
ServerBody(range) ==
    IF range.kind = "tail"
    THEN SubSeq(file, Len(file) - Min(range.n, Len(file)) + 1, Len(file))
    ELSE SubSeq(file, 1, Min(range.n + 1, Len(file)))

\* a Content-Range header: present or not, with a slash or not, and what
\* follows the slash: decimal digits (of the number n), nothing, or other text
NoHeader == [present |-> FALSE, slash |-> FALSE, after |-> [t |-> "empty", n |-> 0]]

\* get_log_file: the Content-Range header, whose part after the slash is the file's size
ServerHeader(range) == [present |-> TRUE, slash |-> TRUE, after |-> [t |-> "digits", n |-> Len(file)]]

\* the headers a response may carry: the server's, none, "bytes 0-3/" and "bytes 0-3/*"
Headers(range) ==
    { ServerHeader(range), NoHeader,
      [present |-> TRUE, slash |-> TRUE, after |-> [t |-> "empty", n |-> 0]],
      [present |-> TRUE, slash |-> TRUE, after |-> [t |-> "other", n |-> 0]] }

\* splitAt('/', s)?.[1]: the text after the first slash, and the empty text
\* for a text without a slash (the column of the uri decodes and tests the
\* second part it gets for a uri without '?')
SplitAtSlash(header) == IF header.slash THEN header.after ELSE [t |-> "empty", n |-> 0]

\* Number(text): the empty text is 0, text that is no numeral is NaN
Number(text) ==
    CASE text.t = "digits" -> text.n
      [] text.t = "empty" -> 0
      [] OTHER -> NaN

\* Number(splitAt('/', res.headers.get('Content-Range') || '')?.[1])
ContentRangeSize(header) == Number(SplitAtSlash(IF header.present THEN header ELSE NoHeader))

\* body.length >= size
Covers_Strict(body, size) == Len(body) > size

Covers(body, size) == Len(body) >= size

\* size - body.length + lines.shift().length + 1
SkippedAfter_NoNewline(size, body, lines) == size - Len(body) + Len(Head(lines))

SkippedAfter(size, body, lines) == size - Len(body) + Len(Head(lines)) + 1

\* "Load whole log" is rendered
ButtonOffered == ~connecting /\ skipped > 0

\* LogFile is mounted on one of the given files
LogStart(files) ==
    /\ file \in files
    /\ totalSize = NaN
    /\ limited = TRUE
    /\ skipped = 0
    /\ list = <<>>
    /\ pause = FALSE
    /\ connecting = TRUE
    /\ streamed = 0
    /\ apiParams = NoRange
    /\ req = NoRequest
    /\ issued = <<>>
    /\ responses = <<>>
    /\ toasts = 0
    /\ showCountry = FALSE
    /\ showAgent = FALSE

LogInit == LogStart(Files)

\* useApi requests get_log_file on mount and whenever its parameters have
\* changed; onResponse is the one of the render that made the request
ApiRequest ==
    /\ apiParams # RequestRange(limited, skipped)
    /\ apiParams' = RequestRange(limited, skipped)
    /\ req' = [kind |-> RequestRange(limited, skipped).kind, n |-> RequestRange(limited, skipped).n,
               limited |-> limited, skipped |-> skipped]
    /\ issued' = Append(issued, RequestRange(limited, skipped))
    /\ UNCHANGED << file, totalSize, limited, skipped, list, pause, connecting, streamed,
                    responses, toasts >>
    /\ UNCHANGED << loginVars, sessionVars, showVars, recVars >>

\* setList(x => [...x, ...treated]), as setList(treated)
MergeTreated_Replace(x, treated) == treated

\* setList(x => [...x, ...treated])
MergeTreated(x, treated) == x \o treated

\* the response to the request in flight arrives with the given
\* Content-Range header: onResponse(res, body)
ApiResponseWith(header) ==
    /\ req.kind # "none"
    /\ req' = NoRequest
    /\ LET body == ServerBody(req)
           lines == Split(body)
           size == ContentRangeSize(header)
           partial == req.limited /\ ~Covers(body, size)
           batch == IF partial THEN Tail(lines) ELSE lines
           parsed == [k \in 1..Len(batch) |-> parseLogLine(batch[k], k - 1)]
       IN
       IF req.limited /\ size = NaN
       THEN /\ responses' = Append(responses, [kind |-> req.kind, got |-> Len(body), size |-> size,
                                               limited |-> limited, skipped |-> skipped,
                                               thrown |-> TRUE, header |-> header])
            /\ UNCHANGED << totalSize, limited, skipped, list, toasts, showVars >>
       ELSE /\ IF req.limited
               THEN /\ totalSize' = size
                    /\ IF Covers(body, size)
                       THEN limited' = FALSE /\ UNCHANGED skipped
                       ELSE skipped' = SkippedAfter(size, body, lines) /\ UNCHANGED limited
                    /\ UNCHANGED toasts
               ELSE IF req.skipped # 0
                    THEN /\ toasts' = toasts + 1
                         /\ skipped' = 0
                         /\ UNCHANGED << totalSize, limited >>
                    ELSE UNCHANGED << totalSize, limited, skipped, toasts >>
            /\ list' = MergeTreated(list, Treated(batch))
            /\ showCountry' = ShowAfter(showCountry, parsed, "country")
            /\ showAgent' = ShowAfter(showAgent, parsed, "ua")
            /\ responses' = Append(responses, [kind |-> req.kind, got |-> Len(body), size |-> size,
                                               limited |-> limited', skipped |-> skipped',
                                               thrown |-> FALSE, header |-> header])
    /\ UNCHANGED << file, pause, connecting, streamed, apiParams, issued >>
    /\ UNCHANGED << loginVars, sessionVars, recVars >>

\* the response of the server
ApiResponse == ApiResponseWith(ServerHeader(req))

\* onClick of "Load whole log"
LoadWholeLogLimited_Toggle(l) == ~l

LoadWholeLogLimited(l) == FALSE

LoadWholeLog ==
    /\ ButtonOffered
    /\ limited' = LoadWholeLogLimited(limited)
    /\ UNCHANGED << file, totalSize, skipped, list, pause, connecting, streamed, apiParams,
                    req, issued, responses, toasts >>
    /\ UNCHANGED << loginVars, sessionVars, showVars, recVars >>

\* useApiList: the get_log stream is connected
StreamConnected ==
    /\ connecting
    /\ connecting' = FALSE
    /\ UNCHANGED << file, totalSize, limited, skipped, list, pause, streamed, apiParams,
                    req, issued, responses, toasts >>
    /\ UNCHANGED << loginVars, sessionVars, showVars, recVars >>

\* the extra of the events of the stream: none, one with a country, one
\* with a user agent
PlainEvents == { JUndefined }
Events ==
    { JUndefined, JObj([NoProps EXCEPT !["country"] = JStr(OtherText)]),
      JObj([NoProps EXCEPT !["ua"] = JStr(OtherText)]) }

\* useApiList: the get_log stream delivers an event with the given extra,
\* which is mapped by enhanceLogLine and put first (invert)
StreamEvent(extra) ==
    /\ ~connecting
    /\ ~pause
    /\ streamed < MaxEvents
    /\ streamed' = streamed + 1
    /\ LET x == [id |-> streamed, text |-> << "r", "r" >>, src |-> "stream", method |-> "GET",
                 uri |-> << "/f" >>, status |-> 200, extra |-> extra, notes |-> JUndefined]
       IN
       /\ list' = << enhanceLogLine(x) >> \o list
       /\ showCountry' = EnhanceShow(showCountry, x, "country")
       /\ showAgent' = EnhanceShow(showAgent, x, "ua")
    /\ UNCHANGED << file, totalSize, limited, skipped, pause, connecting, apiParams,
                    req, issued, responses, toasts >>
    /\ UNCHANGED << loginVars, sessionVars, recVars >>

\* the values a trailing token may encode: scalars, arrays and objects with
\* the properties that enhanceLogLine tests
Scalars ==
    { JNull, JBool(TRUE), JBool(FALSE), JNum(0), JNum(5), JStr(OtherText), JStr(EmptyText),
      JArr(<<>>), JArr(<< JNum(5) >>) }

Objects ==
    { JObj([NoProps EXCEPT !["dl"] = p.dl, !["ul"] = p.ul, !["u"] = p.u, !["params"] = p.params,
                           !["size"] = IF p.ul = JUndefined THEN JUndefined ELSE JNum(5)]) :
        p \in [dl : { JUndefined, JBool(TRUE) }, ul : { JUndefined, JStr(OtherText) },
               u : { JUndefined, JStr(OtherText) }, params : { JUndefined, JObj(NoProps) }] }

\* the trailing tokens: none, text that is no JSON, and each value encoded
\* once and twice
Tokens ==
    { EmptyText, OtherText }
        \cup { JsonOf(v) : v \in Scalars \cup Objects }
        \cup { JsonOf(JStr(JsonOf(v))) : v \in Scalars \cup Objects }

\* the groups of lines the regular expression accepts
Lines ==
    [line : { <<>> }, method : { "GET", "PUT" },
     uri : { << "/f" >>, << API_URL, "get_log" >>, << API_URL, "loginSrp", "1" >> },
     status : { 200, HTTP_UNAUTHORIZED }, extra : Tokens]

\* a line the regular expression accepts is given to parseLogLine
RecInit == rec \in [stage : { "line" }, m : Lines]

\* parseLogLine makes the record of the line
ParseLine ==
    /\ rec.stage = "line"
    /\ rec' = [stage |-> "parsed", m |-> rec.m, x |-> parseMatch(rec.m, 0)]
    /\ UNCHANGED << loginVars, sessionVars, logVars >>

\* enhanceLogLine is applied to the record
EnhanceLine ==
    /\ rec.stage = "parsed"
    /\ rec' = [stage |-> "enhanced", m |-> rec.m, x |-> rec.x, y |-> enhanceLogLine(rec.x)]
    /\ UNCHANGED << loginVars, sessionVars, logVars >>

\* the pause button
TogglePause ==
    /\ pause' = ~pause
    /\ UNCHANGED << file, totalSize, limited, skipped, list, connecting, streamed, apiParams,
                    req, issued, responses, toasts >>
    /\ UNCHANGED << loginVars, sessionVars, showVars, recVars >>

\* ------------------------------------------------------- specifications
\* no log viewer is mounted
LogIdle ==
    /\ file = <<>>
    /\ totalSize = NaN
    /\ limited = TRUE
    /\ skipped = 0
    /\ list = <<>>
    /\ pause = FALSE
    /\ connecting = TRUE
    /\ streamed = 0
    /\ apiParams = NoRange
    /\ req = NoRequest
    /\ issued = <<>>
    /\ responses = <<>>
    /\ toasts = 0
    /\ showCountry = FALSE
    /\ showAgent = FALSE

\* nobody is logged in and logout has not been called
SessionIdle ==
    /\ username = <<>>
    /\ logouts = <<>>

\* no line is given to parseLogLine
RecIdle == rec = [stage |-> "none"]

LoginNext ==
    \/ \E c \in BOOLEAN : LoginDialog(c)
    \/ \E d \in 1..MaxCalls : KeyEscape(d)
    \/ \E d \in 1..MaxCalls, u \in FilledFields, p \in FilledFields : Go(d, u, p)
    \/ \E i \in 1..MaxAttempts, r \in BOOLEAN : LoginSuccess(i, r)
    \/ \E i \in 1..MaxAttempts : GoResume(i)
    \/ \E i \in 1..MaxAttempts : LoginFailure(i, [message |-> "Failed to fetch", code |-> HTTP_UNAUTHORIZED])
    \/ \E i \in 1..MaxAttempts : AlertDismiss(i)
    \/ HashLogin
    \/ AuthorizedEffect

\* the whole login flow: dialogs, attempts and useAuthorized
InitLogin == LoginInit /\ SessionIdle /\ LogIdle /\ RecIdle

SpecLogin == InitLogin /\ [][LoginNext]_vars

\* one login dialog, opened by a loginDialog() call
GoInit ==
    /\ loginRequired = FALSE
    /\ closeLoginDialog = 1
    /\ lastPromise = 1
    /\ dialogs = << [open |-> TRUE, result |-> "pending", going |-> FALSE] >>
    /\ promises = << [dlg |-> 1, during |-> 0] >>
    /\ attempts = <<>>
    /\ working = 0
    /\ refreshes = 1
    /\ reloads = 0
    /\ effectDep = "unmounted"
    /\ lastGo = [dlg |-> 0, usr |-> <<>>, pwd |-> <<>>, started |-> FALSE]

GoNext ==
    \/ \E u \in FieldValues, p \in FieldValues : Go(1, u, p)
    \/ \E i \in 1..MaxAttempts, r \in BOOLEAN : LoginSuccess(i, r)
    \/ \E i \in 1..MaxAttempts : GoResume(i)
    \/ \E i \in 1..MaxAttempts, e \in Errors : LoginFailure(i, e)
    \/ \E i \in 1..MaxAttempts : AlertDismiss(i)

\* the form of one dialog: every field value and every rejection
InitGo == GoInit /\ SessionIdle /\ LogIdle /\ RecIdle

SpecGo == InitGo /\ [][GoNext]_vars

LogNext ==
    \/ ApiRequest
    \/ ApiResponse
    \/ LoadWholeLog
    \/ StreamConnected
    \/ \E extra \in PlainEvents : StreamEvent(extra)
    \/ TogglePause

\* the viewer of one log file, for every file of the bounded size
InitLog == LoginInit /\ SessionIdle /\ LogInit /\ RecIdle

SpecLog == InitLog /\ [][LogNext]_vars

LogHeadersNext ==
    \/ ApiRequest
    \/ \E header \in Headers(req) : ApiResponseWith(header)
    \/ LoadWholeLog
    \/ StreamConnected
    \/ \E extra \in PlainEvents : StreamEvent(extra)
    \/ TogglePause

\* the session the page was loaded with: nobody or a user logged in
SessionInit ==
    /\ username \in { <<>>, << "a" >> }
    /\ logouts = <<>>

SessionNext ==
    \/ \E u \in FilledFields, p \in FilledFields : Go(1, u, p)
    \/ \E i \in 1..MaxAttempts, r \in BOOLEAN : LoginSuccess(i, r)
    \/ \E i \in 1..MaxAttempts : GoResume(i)
    \/ \E i \in 1..MaxAttempts : LoginFailure(i, [message |-> "Failed to fetch", code |-> HTTP_UNAUTHORIZED])
    \/ \E i \in 1..MaxAttempts : AlertDismiss(i)
    \/ Logout
    \/ \E i \in 1..MaxLogouts : LogoutFulfilled(i)
    \/ \E i \in 1..MaxLogouts, code \in ErrCodes : LogoutRejected(i, code)

InitSession == GoInit /\ SessionInit /\ LogIdle /\ RecIdle

\* logins in one dialog and calls of logout
SpecSession == InitSession /\ [][SessionNext]_vars

LogExtraNext ==
    \/ ApiRequest
    \/ ApiResponse
    \/ LoadWholeLog
    \/ StreamConnected
    \/ \E extra \in Events : StreamEvent(extra)
    \/ TogglePause

InitLogExtra == LoginInit /\ SessionIdle /\ LogStart(FilesWithExtra) /\ RecIdle

\* the viewer of one log file whose lines, and the events of the stream, may
\* carry a country or a user agent
SpecLogExtra == InitLogExtra /\ [][LogExtraNext]_vars

RecordNext ==
    \/ ParseLine
    \/ EnhanceLine

InitRecord == LoginInit /\ SessionIdle /\ LogIdle /\ RecInit

\* one accepted line, parsed and enhanced, for every combination of method,
\* uri, status and trailing token
SpecRecord == InitRecord /\ [][RecordNext]_vars

\* the viewer of one log file, with responses whose Content-Range header may
\* be missing or carry no size
SpecLogHeaders == InitLog /\ [][LogHeadersNext]_vars

\* ======================================================== login: claims

\* C1: at most one login dialog is open at any time; closeLoginDialog is set
\* exactly while that dialog is open, and a loginDialog call made while it is
\* set opens no dialog.
C1_OneLoginDialog ==
    /\ Cardinality(OpenDialogs) <= 1
    /\ OpenDialogs = (IF closeLoginDialog = 0 THEN {} ELSE {closeLoginDialog})
    /\ \A p \in 1..Len(promises) : promises[p].during # 0 => promises[p].dlg = 0
    /\ Len(dialogs) = Cardinality({ p \in 1..Len(promises) : promises[p].during = 0 })

\* a loginDialog call was made while the dialog now open was open
C1_Witness ==
    \E p \in 1..Len(promises) :
        /\ promises[p].during # 0
        /\ promises[p].during \in OpenDialogs
        /\ Len(dialogs) = 1

\* C2: the promise returned by a loginDialog call made while a dialog was open
\* settles with the value that dialog closes with, as the first call's does.
C2_SecondCallSettles ==
    \A p \in 1..Len(promises) :
        LET d == promises[p].during IN
        (d # 0 /\ ~dialogs[d].open) =>
            /\ PromiseValue(p) = dialogs[d].result
            /\ \A q \in 1..Len(promises) : promises[q].dlg = d => PromiseValue(q) = dialogs[d].result

\* C3 as stated: login is called only with a username and a password that
\* are both non-empty after trimming.
C3_BothTrimmedNonEmpty ==
    /\ \A i \in 1..Len(attempts) : attempts[i].usr # <<>> /\ Trim(attempts[i].pwd) # <<>>
    /\ lastGo.started => Trim(lastGo.usr) # <<>> /\ Trim(lastGo.pwd) # <<>>

\* C3 amended: login is called only with a username that is non-empty after
\* trimming and a password that is non-empty as typed (the password is not
\* trimmed); a submit with an empty or whitespace-only username, or an empty
\* password, calls nothing.
C3_UsrTrimmedPwdAsTyped ==
    /\ \A i \in 1..Len(attempts) :
          /\ attempts[i].usr # <<>>
          /\ attempts[i].usr = Trim(attempts[i].usr)
          /\ attempts[i].pwd # <<>>
    /\ lastGo.started => Trim(lastGo.usr) # <<>> /\ lastGo.pwd # <<>>

\* a whitespace-only username was submitted with a password, nothing was
\* running, and login was not called
C3_Witness ==
    /\ lastGo.dlg # 0
    /\ lastGo.usr = << " " >>
    /\ lastGo.pwd # <<>>
    /\ ~lastGo.started
    /\ attempts = <<>>

\* C4: after a fulfilled authentication sequence go() has refreshed the
\* session once, cleared loginRequired and reloaded the list, in this order,
\* then closed the dialog, whose promise resolved with true, and navigated if
\* and only if the result carries a redirect.
C4_SuccessClosesWithTrue ==
    \A i \in 1..Len(attempts) :
        (attempts[i].pc = "done" /\ attempts[i].trace # <<>>) =>
            /\ attempts[i].trace = << "sessionRefresher", "loginRequired", "reloadList", "close" >>
                                   \o (IF attempts[i].redirect THEN << "navigate" >> ELSE <<>>)
            /\ ~dialogs[attempts[i].dlg].open
            /\ dialogs[attempts[i].dlg].result = "true"

\* C5: a rejected authentication sequence and the dismissal of its alert
\* leave the dialogs, their promises, closeLoginDialog and loginRequired as
\* they were and trigger no reload and no session refresh; and an open dialog
\* whose attempts are all over has going = false, so that go() passes its
\* guard again.
C5_FailureStep ==
    \A i \in 1..Len(attempts) :
        (\/ attempts[i].pc = "auth" /\ attempts'[i].pc = "alert"
         \/ attempts[i].pc = "alert" /\ attempts'[i].pc = "done") =>
            /\ UNCHANGED << loginRequired, closeLoginDialog, promises, lastPromise, refreshes, reloads >>
            /\ \A d \in 1..Len(dialogs) :
                  dialogs'[d].open = dialogs[d].open /\ dialogs'[d].result = dialogs[d].result

C5_Retry ==
    \A d \in OpenDialogs :
        (\A i \in 1..Len(attempts) : attempts[i].dlg = d => attempts[i].pc = "done")
            => GoGuard(d, << "a" >>, << "a" >>)

\* C5: every authentication failure is recoverable: both parts above, in
\* every step and every state.
C5_FailureRecoverable == [][C5_FailureStep]_vars /\ []C5_Retry

\* a dialog is still open after a failed attempt and a second attempt runs in it
C5_Witness ==
    \E i, j \in 1..Len(attempts) :
        /\ i < j
        /\ attempts[i].dlg = attempts[j].dlg
        /\ attempts[i].pc = "done" /\ attempts[i].trace = <<>>
        /\ attempts[j].pc = "auth"
        /\ attempts[i].dlg \in OpenDialogs
        /\ PromiseValue(1) = "pending"

\* C6: the alert shows one message: the untrusted-identity one for message
\* 'trust'; otherwise "Invalid credentials" for code 401; otherwise the
\* cookies one for code 409; otherwise the error's own message.
C6_MessagePrecedence ==
    \A i \in 1..Len(attempts) :
        attempts[i].pc = "alert" =>
            LET e == attempts[i].err
                m == attempts[i].msg
            IN
            /\ e.message = "trust" => m.key = "login_untrusted"
            /\ (e.message # "trust" /\ e.code = HTTP_UNAUTHORIZED) =>
                   m = [key |-> "login_bad_credentials", def |-> "Invalid credentials"]
            /\ (e.message # "trust" /\ e.code # HTTP_UNAUTHORIZED /\ e.code = HTTP_CONFLICT) =>
                   m.key = "login_bad_cookies"
            /\ (e.message # "trust" /\ e.code \notin { HTTP_UNAUTHORIZED, HTTP_CONFLICT }) =>
                   m.def = e.message

\* an alert is shown for an error that is both 'trust' and unauthorized
C6_Witness ==
    \E i \in 1..Len(attempts) :
        /\ attempts[i].pc = "alert"
        /\ attempts[i].err = [message |-> "trust", code |-> HTTP_UNAUTHORIZED]
        /\ attempts[i].msg.key = "login_untrusted"
\* C16_Step: the step in which the catch handler of a call of logout runs
C16_Step ==
    \A i \in 1..Len(logouts) :
        (logouts[i].pc = "call" /\ logouts'[i].pc \notin { "call", "fulfilled" }) =>
            IF logouts'[i].code = 401
            THEN /\ logouts'[i].pc = "handled"
                 /\ username' = <<>>
                 /\ reloads' = reloads + 1
            ELSE /\ logouts'[i].pc = "rethrown"
                 /\ username' = username
                 /\ reloads' = reloads

\* C16: when apiCall('logout') rejects with code 401, logout clears
\* state.username, calls reloadList and completes without error; for any
\* other code it rethrows the error, with the username as it was and no reload.
C16_LogoutExpects401 == [][C16_Step]_vars

\* a logout of a logged-in user was rejected with 401 and nobody is logged
\* in any more, and another logout rethrew an error of another code
C16_Witness ==
    /\ username = <<>>
    /\ \E i \in 1..Len(logouts) :
          logouts[i].pc = "handled" /\ logouts[i].user # <<>> /\ logouts[i].code = 401
    /\ \E i \in 1..Len(logouts) : logouts[i].pc = "rethrown" /\ logouts[i].code # 401

\* the authentication sequences of dialog d that are under way: login() is
\* pending, go() is about to resume, or the alert is shown
C18_InFlight(d) == { i \in 1..Len(attempts) : attempts[i].dlg = d /\ attempts[i].pc # "done" }

C18_Step ==
    \A d \in 1..Len(dialogs') :
        /\ Cardinality(C18_InFlight(d)') <= 1
        /\ (d <= Len(dialogs) /\ C18_InFlight(d) # {}) =>
               ~(Len(attempts') > Len(attempts) /\ attempts'[Len(attempts')].dlg = d)
        /\ dialogs'[d].going <=> C18_InFlight(d)' # {}

\* C18: a dialog has at most one authentication sequence under way: a call
\* of go() while an attempt of the dialog is running or its alert is shown
\* starts none, and going is false again once the attempt is over, by
\* success or by failure.
C18_OneSequencePerDialog == [][C18_Step]_vars

\* a first attempt is over and a second one is running, during which go()
\* was called with both fields filled and started nothing
C18_Witness ==
    /\ Len(attempts) = 2
    /\ attempts[1].pc = "done"
    /\ attempts[2].pc = "auth"
    /\ attempts[2].dlg = attempts[1].dlg
    /\ lastGo = [dlg |-> attempts[2].dlg, usr |-> << "a" >>, pwd |-> << "a" >>, started |-> FALSE]

C20_Step ==
    /\ (loginRequired' /\ effectDep' = "true") =>
          closeLoginDialog' # 0 /\ OpenDialogs' = { closeLoginDialog' }
    /\ (effectDep' = "false" /\ effectDep # "false") =>
          closeLoginDialog' = 0 /\ OpenDialogs' = {}

\* C20: while loginRequired is true and the effect of useAuthorized has run
\* for it, a login dialog is open, also after Escape was typed in it; and
\* the run of the effect for loginRequired = false leaves no login dialog
\* open and closeLoginDialog undefined.
C20_DialogWhileRequired == [][C20_Step]_vars

\* =================================================== log viewer: claims

\* the list without the events of the stream, which are put first
Windowed == SubSeq(list, streamed + 1, Len(list))

\* the file from byte offset off on
FileFrom(off) == SubSeq(file, off + 1, Len(file))

\* the bytes a tail request of MAX bytes receives
TailBytes == FileFrom(Len(file) - Min(MAX, Len(file)))

\* the number of characters before the first newline of s, all of s without one
FirstLineLen(s) ==
    IF \E k \in 1..Len(s) : s[k] = NL
    THEN (CHOOSE k \in 1..Len(s) : s[k] = NL /\ \A j \in 1..(k - 1) : s[j] # NL) - 1
    ELSE Len(s)

PrefixRequests == { k \in 1..Len(issued) : issued[k].kind = "prefix" }

C9_OnePrefixRequest ==
    /\ Cardinality(PrefixRequests) <= 1
    /\ toasts = Cardinality({ j \in 1..Len(responses) : responses[j].kind = "prefix" })
    /\ toasts <= 1
    /\ (~limited /\ skipped > 0) =>
          /\ toasts = 0
          /\ \/ PrefixRequests = {} /\ apiParams # RequestRange(limited, skipped) /\ req = NoRequest
             \/ /\ PrefixRequests # {}
                /\ req = [kind |-> "prefix", n |-> skipped, limited |-> FALSE, skipped |-> skipped]
                /\ apiParams = [kind |-> "prefix", n |-> skipped]
    /\ \A k \in PrefixRequests : issued[k].n = responses[1].skipped /\ issued[k].n > 0
    /\ toasts = 1 => skipped = 0 /\ ~limited /\ Cardinality(PrefixRequests) = 1

\* the prefix response was handled, and the tail request that follows it too
C9_Witness ==
    /\ toasts = 1
    /\ skipped = 0
    /\ Len(responses) = 3
    /\ Len(issued) = 3

\* C10: limited never goes back to true, and it goes to false only in the
\* handling of a tail response that covers the whole file or in the click of
\* "Load whole log", which is offered only after a partial first response.
C10_Step ==
    /\ ~limited => ~limited'
    /\ (limited /\ ~limited') =>
          \/ /\ Len(responses') = Len(responses) + 1
             /\ responses'[Len(responses')].kind = "tail"
             /\ responses'[Len(responses')].got >= responses'[Len(responses')].size
             /\ responses = <<>>
          \/ /\ responses' = responses
             /\ ButtonOffered
             /\ Len(responses) = 1
             /\ responses[1].got < responses[1].size

\* C10: the loader only moves forward: every step satisfies the above.
C10_LimitedOnlyFalls == [][C10_Step]_vars

\* the whole log was loaded after a click, with a stream event and a pause since
C10_Witness ==
    /\ ~limited
    /\ Len(responses) = 3
    /\ streamed = 1
    /\ pause

\* the lines the handler of the response to the request in flight gives to
\* the parser: those of the body, without the first one when it was shifted off
C11_RawLines ==
    LET body == ServerBody(req)
    IN  IF req.limited /\ Len(body) < Len(file) THEN Tail(Split(body)) ELSE Split(body)

\* the records the step has put after the ones of the list
C11_Merged == SubSeq(list', Len(list) + 1, Len(list'))

C11_Step ==
    (Len(responses') = Len(responses) + 1) =>
        LET raw == C11_RawLines
            good == { k \in 1..Len(raw) : Matches(raw[k]) }
        IN
        /\ ~responses'[Len(responses')].thrown
        /\ Len(C11_Merged) = Cardinality(good)
        /\ \A k \in good :
              \E j \in 1..Len(C11_Merged) : C11_Merged[j].text = raw[k] /\ C11_Merged[j].id = k - 1
        /\ \A j \in 1..Len(C11_Merged) :
              C11_Merged[j].id + 1 \in good /\ C11_Merged[j].text = raw[C11_Merged[j].id + 1]

\* C11: a line the grammar rejects is dropped without failing its batch: the
\* handling of a response raises no error and merges exactly one record for
\* each line of the batch the grammar accepts, and none for any other line.
C11_RejectedLineDropped == [][C11_Step]_vars

\* a batch with a line the grammar accepts and a non-empty one it rejects was
\* handled, and only the accepted line is listed
C11_Witness ==
    /\ Len(responses) = 1
    /\ Len(file) <= MAX
    /\ \E k \in 1..Len(Split(file)) : Matches(Split(file)[k])
    /\ \E k \in 1..Len(Split(file)) : Split(file)[k] # <<>> /\ ~Matches(Split(file)[k])
    /\ Len(Windowed) = 1
    /\ ~responses[1].thrown

C13_Step ==
    /\ Len(list') >= Len(list)
    /\ \E k \in 0..(Len(list') - Len(list)) : SubSeq(list', k + 1, k + Len(list)) = list
    /\ Len(responses') = Len(responses) + 1 => SubSeq(list', 1, Len(list)) = list

\* C13: the list never shrinks: every step keeps the records of the list,
\* in their order, and the handling of a response puts its batch after them,
\* whatever the stream has delivered in between.
C13_ListOnlyGrows == [][C13_Step]_vars

\* two batches were merged and the stream delivered an event, which is first
C13_Witness ==
    /\ Len(responses) >= 2
    /\ streamed = 1
    /\ list[1].src = "stream"
    /\ Len(Windowed) >= 2
    /\ \A j \in 1..Len(Windowed) : Windowed[j].src = "file"

\* the header carries no size that can be read
C12_NoSize(header) == ~header.present \/ ~header.slash \/ header.after.t # "digits"

\* C12: when the header of the tail response is missing or carries no
\* readable total size, the handler raises an error and totalSize, limited,
\* skipped and the list stay as they were: NaN, true, 0 and without records.
C12_BadHeaderRaises ==
    (Len(responses) >= 1 /\ C12_NoSize(responses[1].header)) =>
        /\ responses[1].thrown
        /\ Len(responses) = 1
        /\ totalSize = NaN
        /\ limited
        /\ skipped = 0
        /\ Windowed = <<>>

\* the records of list' whose extra has a true value under key
C14_Carrying(key) == { j \in 1..Len(list') : Truthy(Get(list'[j].extra, key)) }

C14_Step ==
    /\ showCountry => showCountry'
    /\ showAgent => showAgent'
    /\ C14_Carrying("country") # {} => showCountry'
    /\ C14_Carrying("ua") # {} => showAgent'

\* C14: showCountry and showAgent are latches: each is true as soon as a
\* record whose extra carries a country (a user agent) has been enhanced and
\* put in the list, and no later batch, event or parse failure makes it false.
C14_ShowLatches == [][C14_Step]_vars

\* both are true although the event of the stream and a record merged in
\* the last batch carry neither a country nor a user agent
C14_Witness ==
    /\ showCountry
    /\ showAgent
    /\ streamed = 1
    /\ list[1].extra = JUndefined
    /\ Len(responses) = 3
    /\ list[Len(list)].extra = JUndefined

\* C15: the notes follow a fixed order of tests: a true extra.dl gives
\* "fully downloaded" whatever else holds; otherwise method PUT or a true
\* extra.ul gives the upload marker with extra.size; otherwise status 401 on
\* a uri that starts with the loginSrp endpoint gives the failed-login
\* marker with extra.u; otherwise the parameters of extra.params are listed.
C15_NotesPrecedence ==
    rec.stage = "enhanced" =>
        LET x == rec.x
            dl == Truthy(Get(x.extra, "dl"))
            up == x.method = "PUT" \/ Truthy(Get(x.extra, "ul"))
            failed == x.status = 401 /\ Len(x.uri) >= 2 /\ x.uri[1] = "/~/api/" /\ x.uri[2] = "loginSrp"
            n == rec.y.notes
        IN
        /\ dl => n.marker = "fully downloaded"
        /\ (~dl /\ up) => n.marker = "uploaded" /\ n.detail = Get(x.extra, "size")
        /\ (~dl /\ ~up /\ failed) => n.marker = "login failed" /\ n.detail = Get(x.extra, "u")
        /\ (~dl /\ ~up /\ ~failed) => n.marker = "params" /\ n.detail = Get(x.extra, "params")
        /\ [rec.y EXCEPT !.notes = x.notes] = x

\* a PUT answered 401 on the login endpoint whose extra has dl, ul and u was
\* enhanced
C15_Witness ==
    /\ rec.stage = "enhanced"
    /\ rec.x.method = "PUT"
    /\ rec.x.status = 401
    /\ StartsWithLoginSrp(rec.x.uri)
    /\ Truthy(Get(rec.x.extra, "dl"))
    /\ Truthy(Get(rec.x.extra, "ul"))
    /\ Truthy(Get(rec.x.extra, "u"))
    /\ rec.y.notes.marker = "fully downloaded"

\* C17: the extra of every parsed record is undefined or an object, never a
\* number, a string, a boolean or an array.
C17_ExtraIsObject ==
    rec.stage \in { "parsed", "enhanced" } => rec.x.extra.t \in { "undefined", "object" }

\* the number of records of the windowed loader whose line is t
C19_Merged(t) == Cardinality({ j \in 1..Len(Windowed) : Windowed[j].text = t })

\* the number of lines of the file that are t, and of those that end in a newline
C19_Lines(t) == Cardinality({ k \in 1..Len(Split(file)) : Split(file)[k] = t })
C19_Complete(t) == Cardinality({ k \in 1..(Len(Split(file)) - 1) : Split(file)[k] = t })

\* C19: once the prefix fetch of "Load whole log" has been merged after the
\* tail fetch and skipped is 0 again, every line of the file has at most one
\* record among those of the windowed loader, and every complete line that
\* the grammar accepts has one.
C19_EachLineOnce ==
    toasts = 1 =>
        /\ \A j \in 1..Len(Windowed) : C19_Merged(Windowed[j].text) <= C19_Lines(Windowed[j].text)
        /\ \A k \in 1..(Len(Split(file)) - 1) :
              Matches(Split(file)[k]) => C19_Merged(Split(file)[k]) >= C19_Complete(Split(file)[k])

\* C21: the ids of the records that the windowed loader has merged from the
\* tail batch and the prefix batch are usable as keys: any two of these
\* records, at different places of the list, have different ids.
C21_IdsDistinct ==
    Len(responses) <= 2 =>
        \A i \in 1..Len(Windowed), j \in 1..Len(Windowed) :
            i # j => Windowed[i].id # Windowed[j].id
====
